---- MODULE Spec2Model ----
(***************************************************************************)
(* Model of azfile/parsing_urls.go: NewFileURLParts (URL -> FileURLParts)  *)
(* and FileURLParts.URL (FileURLParts -> URL).                             *)
(*                                                                         *)
(* A Go string is a sequence of byte values (ASCII codes), so that         *)
(* slicing, strings.Index, strings.ToLower, the sort order of              *)
(* url.Values.Encode and percent-escaping are computed, not assumed.       *)
(* A Go index i (0-based) is element i+1 of the sequence.                  *)
(***************************************************************************)
EXTENDS Integers, Sequences, FiniteSets, Bags, TLC

\* The byte values the code and its library calls compare against.
ascii ==
  [ slash |-> 47, amp |-> 38, eq |-> 61, percent |-> 37, plus |-> 43,
    space |-> 32, colon |-> 58, lbrack |-> 91, rbrack |-> 93, dot |-> 46 ]

\* const shareSnapshot = "sharesnapshot"
shareSnapshot == <<115,104,97,114,101,115,110,97,112,115,104,111,116>>

----------------------------------------------------------------------------
(* package strings *)

RECURSIVE IndexFrom(_, _, _)
IndexFrom(s, c, i) ==
  IF i > Len(s) THEN -1
  ELSE IF s[i] = c THEN i - 1
  ELSE IndexFrom(s, c, i + 1)

\* strings.Index(s, string(c)): 0-based index of the first c in s, or -1.
Index(s, c) == IndexFrom(s, c, 1)

RECURSIVE LastIndexFrom(_, _, _)
LastIndexFrom(s, c, i) ==
  IF i < 1 THEN -1
  ELSE IF s[i] = c THEN i - 1
  ELSE LastIndexFrom(s, c, i - 1)

\* 0-based index of the last c in s, or -1.
LastIndex(s, c) == LastIndexFrom(s, c, Len(s))

\* Go slices s[:i], s[i:] and s[i:j] for 0-based i, j.
SliceTo(s, i) == SubSeq(s, 1, i)
SliceFrom(s, i) == SubSeq(s, i + 1, Len(s))
Slice(s, i, j) == SubSeq(s, i + 1, j)

\* strings.ToLower on ASCII.
ToLower(s) == [i \in DOMAIN s |-> IF s[i] >= 65 /\ s[i] <= 90 THEN s[i] + 32 ELSE s[i]]

\* Byte-wise lexicographic order of Go strings (a < b).
RECURSIVE Less(_, _)
Less(a, b) ==
  IF b = <<>> THEN FALSE
  ELSE IF a = <<>> THEN TRUE
  ELSE IF a[1] # b[1] THEN a[1] < b[1]
  ELSE Less(Tail(a), Tail(b))

----------------------------------------------------------------------------
(* package net/url: query escaping, ParseQuery, Values.Encode *)

IsDigit(c) == c >= 48 /\ c <= 57
IsHex(c) == IsDigit(c) \/ (c >= 97 /\ c <= 102) \/ (c >= 65 /\ c <= 70)
IsAlnum(c) == IsDigit(c) \/ (c >= 97 /\ c <= 122) \/ (c >= 65 /\ c <= 90)

Unhex(c) == IF IsDigit(c) THEN c - 48 ELSE IF c >= 97 THEN c - 87 ELSE c - 55
UpperHex(d) == IF d < 10 THEN 48 + d ELSE 55 + d

\* url.QueryUnescape succeeds iff every '%' is followed by two hex digits.
RECURSIVE UnescapeOk(_)
UnescapeOk(s) ==
  IF s = <<>> THEN TRUE
  ELSE IF s[1] = ascii.percent
       THEN Len(s) >= 3 /\ IsHex(s[2]) /\ IsHex(s[3]) /\ UnescapeOk(SliceFrom(s, 3))
       ELSE UnescapeOk(Tail(s))

\* url.QueryUnescape on a string that passes UnescapeOk: %XX is the byte XX,
\* '+' is a space.
RECURSIVE QueryUnescape(_)
QueryUnescape(s) ==
  IF s = <<>> THEN <<>>
  ELSE IF s[1] = ascii.percent
       THEN <<16 * Unhex(s[2]) + Unhex(s[3])>> \o QueryUnescape(SliceFrom(s, 3))
  ELSE IF s[1] = ascii.plus THEN <<ascii.space>> \o QueryUnescape(Tail(s))
  ELSE <<s[1]>> \o QueryUnescape(Tail(s))

\* url.QueryEscape: unreserved bytes are kept, a space is '+', any other byte
\* is %XX in upper-case hex.
RECURSIVE QueryEscape(_)
QueryEscape(s) ==
  IF s = <<>> THEN <<>>
  ELSE (IF IsAlnum(s[1]) \/ s[1] \in {45, 95, 46, 126} THEN <<s[1]>>
        ELSE IF s[1] = ascii.space THEN <<ascii.plus>>
        ELSE <<ascii.percent, UpperHex(s[1] \div 16), UpperHex(s[1] % 16)>>)
       \o QueryEscape(Tail(s))

\* strings.Cut(s, string(c)): the text before and after the first c.
CutBefore(s, c) == IF Index(s, c) = -1 THEN s ELSE SliceTo(s, Index(s, c))
CutAfter(s, c) == IF Index(s, c) = -1 THEN <<>> ELSE SliceFrom(s, Index(s, c) + 1)

\* url.ParseQuery as the list of decoded <<key, value>> pairs in input order:
\* split at '&', skip empty pieces, cut at the first '=', skip a piece whose
\* key or value does not unescape.
RECURSIVE QueryPairs(_)
QueryPairs(query) ==
  IF query = <<>> THEN <<>>
  ELSE LET piece == CutBefore(query, ascii.amp)
           rest == CutAfter(query, ascii.amp)
           key == CutBefore(piece, ascii.eq)
           value == CutAfter(piece, ascii.eq)
       IN IF piece = <<>> \/ ~UnescapeOk(key) \/ ~UnescapeOk(value)
          THEN QueryPairs(rest)
          ELSE <<<<QueryUnescape(key), QueryUnescape(value)>>>> \o QueryPairs(rest)

RECURSIVE ValuesOf(_, _)
ValuesOf(pairs, k) ==
  IF pairs = <<>> THEN <<>>
  ELSE (IF pairs[1][1] = k THEN <<pairs[1][2]>> ELSE <<>>) \o ValuesOf(Tail(pairs), k)

\* url.URL.Query(): url.Values, a map from key to its values in input order.
Query(rawQuery) ==
  LET pairs == QueryPairs(rawQuery)
  IN [k \in {pairs[i][1] : i \in DOMAIN pairs} |-> ValuesOf(pairs, k)]

\* delete(m, key)
Delete(m, key) == [k \in DOMAIN m \ {key} |-> m[k]]

RECURSIVE SortedKeys(_)
SortedKeys(S) ==
  IF S = {} THEN <<>>
  ELSE LET min == CHOOSE k \in S : \A o \in S \ {k} : Less(k, o)
       IN <<min>> \o SortedKeys(S \ {min})

RECURSIVE EncodeKey(_, _)
EncodeKey(k, vs) ==
  IF vs = <<>> THEN <<>>
  ELSE QueryEscape(k) \o <<ascii.eq>> \o QueryEscape(vs[1])
       \o (IF Len(vs) > 1 THEN <<ascii.amp>> \o EncodeKey(k, Tail(vs)) ELSE <<>>)

RECURSIVE EncodeKeys(_, _)
EncodeKeys(m, keys) ==
  IF keys = <<>> THEN <<>>
  ELSE LET head == EncodeKey(keys[1], m[keys[1]])
           tail == EncodeKeys(m, Tail(keys))
       IN IF head = <<>> THEN tail
          ELSE IF tail = <<>> THEN head
          ELSE head \o <<ascii.amp>> \o tail

\* url.Values.Encode(): "key=value" pairs, keys sorted, joined by '&'.
Encode(m) == EncodeKeys(m, SortedKeys(DOMAIN m))

----------------------------------------------------------------------------
(* package net: SplitHostPort and ParseIP, as called by isIPEndpointStyle *)

\* net.SplitHostPort(hostport): err is TRUE when the call returns an error,
\* host is the host part otherwise.  The port starts after the last colon; a
\* bracketed host must end right before that colon.
SplitHostPort(hostport) ==
  LET i == LastIndex(hostport, ascii.colon)
      end == Index(hostport, ascii.rbrack)
      fail == [err |-> TRUE, host |-> <<>>]
  IN IF i < 0 THEN fail
     ELSE IF hostport[1] = ascii.lbrack
     THEN IF end < 0 \/ end + 1 # i THEN fail
          ELSE IF Index(SliceFrom(hostport, 1), ascii.lbrack) >= 0
                  \/ Index(SliceFrom(hostport, end + 1), ascii.rbrack) >= 0
          THEN fail
          ELSE [err |-> FALSE, host |-> Slice(hostport, 1, end)]
     ELSE IF Index(SliceTo(hostport, i), ascii.colon) >= 0 THEN fail
          ELSE IF Index(hostport, ascii.lbrack) >= 0 \/ Index(hostport, ascii.rbrack) >= 0
          THEN fail
          ELSE [err |-> FALSE, host |-> SliceTo(hostport, i)]

\* Number of leading bytes of s that satisfy the digit test.
RECURSIVE LeadLen(_, _)
LeadLen(s, hex) ==
  IF s = <<>> \/ ~(IF hex THEN IsHex(s[1]) ELSE IsDigit(s[1])) THEN 0
  ELSE 1 + LeadLen(Tail(s), hex)

\* Value of the digit string s in the given base, saturating at 16^6 as the
\* library's "big" does.
RECURSIVE ToInt(_, _, _)
ToInt(s, base, acc) ==
  IF s = <<>> THEN acc
  ELSE IF acc * base + Unhex(s[1]) >= 16777215 THEN 16777215
  ELSE ToInt(Tail(s), base, acc * base + Unhex(s[1]))

\* parseIPv4: four decimal fields 0..255 separated by '.', nothing after.
RECURSIVE ParseIPv4From(_, _)
ParseIPv4From(s, i) ==
  IF i = 4 THEN s = <<>>
  ELSE IF s = <<>> THEN FALSE
  ELSE IF i > 0 /\ s[1] # ascii.dot THEN FALSE
  ELSE LET t == IF i > 0 THEN Tail(s) ELSE s
           c == LeadLen(t, FALSE)
       IN c > 0 /\ ToInt(SliceTo(t, c), 10, 0) <= 255
          /\ ParseIPv4From(SliceFrom(t, c), i + 1)

ParseIPv4(s) == ParseIPv4From(s, 0)

\* The loop of parseIPv6: i is the number of address bytes filled so far,
\* ellipsis the position of "::" or -1.
RECURSIVE ParseIPv6Loop(_, _, _)
ParseIPv6Loop(s, i, ellipsis) ==
  LET c == LeadLen(s, TRUE)
      done(rest, n, e) == rest = <<>> /\ (IF n < 16 THEN e >= 0 ELSE e < 0)
  IN IF c = 0 \/ ToInt(SliceTo(s, c), 16, 0) > 65535 THEN FALSE
     ELSE IF c < Len(s) /\ s[c + 1] = ascii.dot
     THEN ~(ellipsis < 0 /\ i # 12) /\ i + 4 <= 16 /\ ParseIPv4(s)
          /\ done(<<>>, i + 4, ellipsis)
     ELSE LET rest == SliceFrom(s, c)
              n == i + 2
          IN IF rest = <<>> THEN done(rest, n, ellipsis)
             ELSE IF rest[1] # ascii.colon \/ Len(rest) = 1 THEN FALSE
             ELSE IF rest[2] = ascii.colon
             THEN ellipsis < 0
                  /\ (IF Len(rest) = 2 \/ n >= 16
                      THEN done(SliceFrom(rest, 2), n, n)
                      ELSE ParseIPv6Loop(SliceFrom(rest, 2), n, n))
             ELSE IF n >= 16 THEN done(Tail(rest), n, ellipsis)
             ELSE ParseIPv6Loop(Tail(rest), n, ellipsis)

ParseIPv6(s) ==
  IF Len(s) >= 2 /\ s[1] = ascii.colon /\ s[2] = ascii.colon
  THEN Len(s) = 2 \/ ParseIPv6Loop(SliceFrom(s, 2), 0, 0)
  ELSE ParseIPv6Loop(s, 0, -1)

\* net.ParseIP(s) != nil: the first '.' or ':' in s selects the v4 or the v6
\* parser; a string with neither is not an address.
ParseIP(s) ==
  LET d == Index(s, ascii.dot)
      c == Index(s, ascii.colon)
  IN IF d = -1 /\ c = -1 THEN FALSE
     ELSE IF c = -1 \/ (d # -1 /\ d < c) THEN ParseIPv4(s)
     ELSE ParseIPv6(s)

----------------------------------------------------------------------------
(* parsing_urls.go *)

\* isIPEndpointStyle(url): the host is split only when it contains a ':'.
isIPEndpointStyle(url) ==
  LET split == IF Index(url.Host, ascii.colon) # -1
               THEN SplitHostPort(url.Host)
               ELSE [err |-> FALSE, host |-> url.Host]
  IN ~split.err /\ ParseIP(split.host)

\* SplitIPEndpoint with the share name ended at the LAST slash of the rest.
SplitIPEndpointLastSlash(path) ==
  LET accountEndIndex == Index(path, ascii.slash)
      rest == SliceFrom(path, accountEndIndex + 1)
      shareEndIndex == LastIndex(rest, ascii.slash)
  IN IF accountEndIndex = -1
     THEN [accountName |-> path, ShareName |-> <<>>, DirectoryOrFilePath |-> <<>>]
     ELSE IF shareEndIndex = -1
     THEN [accountName |-> SliceTo(path, accountEndIndex), ShareName |-> rest,
           DirectoryOrFilePath |-> <<>>]
     ELSE [accountName |-> SliceTo(path, accountEndIndex),
           ShareName |-> SliceTo(rest, shareEndIndex),
           DirectoryOrFilePath |-> SliceFrom(rest, shareEndIndex + 1)]

\* The path split of an IP-endpoint style URL, on the path without its
\* leading slash: account / share / rest.
SplitIPEndpoint(path) ==
  LET accountEndIndex == Index(path, ascii.slash)
      rest == SliceFrom(path, accountEndIndex + 1)
      shareEndIndex == Index(rest, ascii.slash)
  IN IF accountEndIndex = -1
     THEN [accountName |-> path, ShareName |-> <<>>, DirectoryOrFilePath |-> <<>>]
     ELSE IF shareEndIndex = -1
     THEN [accountName |-> SliceTo(path, accountEndIndex), ShareName |-> rest,
           DirectoryOrFilePath |-> <<>>]
     ELSE [accountName |-> SliceTo(path, accountEndIndex),
           ShareName |-> SliceTo(rest, shareEndIndex),
           DirectoryOrFilePath |-> SliceFrom(rest, shareEndIndex + 1)]

\* SplitNamedHost with the rest starting AT the slash instead of after it.
SplitNamedHostKeepSlash(path) ==
  LET shareEndIndex == Index(path, ascii.slash)
  IN IF shareEndIndex = -1
     THEN [accountName |-> <<>>, ShareName |-> path, DirectoryOrFilePath |-> <<>>]
     ELSE [accountName |-> <<>>, ShareName |-> SliceTo(path, shareEndIndex),
           DirectoryOrFilePath |-> SliceFrom(path, shareEndIndex)]

\* The path split of a named-host style URL: share / rest.
SplitNamedHost(path) ==
  LET shareEndIndex == Index(path, ascii.slash)
  IN IF shareEndIndex = -1
     THEN [accountName |-> <<>>, ShareName |-> path, DirectoryOrFilePath |-> <<>>]
     ELSE [accountName |-> <<>>, ShareName |-> SliceTo(path, shareEndIndex),
           DirectoryOrFilePath |-> SliceFrom(path, shareEndIndex + 1)]

\* ParsePath without the "u.Path != """ guard: path[0] is read on every path
\* and panics on the empty one.
ParsePathUnguarded(path, ip) ==
  IF path = <<>>
  THEN [accountName |-> <<>>, ShareName |-> <<>>, DirectoryOrFilePath |-> <<>>,
        panic |-> TRUE]
  ELSE LET stripped == IF path[1] = ascii.slash THEN SliceFrom(path, 1) ELSE path
           f == IF ip THEN SplitIPEndpoint(stripped) ELSE SplitNamedHost(stripped)
       IN [accountName |-> f.accountName, ShareName |-> f.ShareName,
           DirectoryOrFilePath |-> f.DirectoryOrFilePath, panic |-> FALSE]

\* The "if u.Path != """ block of NewFileURLParts.  panic is TRUE when the
\* block would index an empty string (path[0]).
ParsePath(path, ip) ==
  IF path = <<>>
  THEN [accountName |-> <<>>, ShareName |-> <<>>, DirectoryOrFilePath |-> <<>>,
        panic |-> FALSE]
  ELSE LET stripped == IF path[1] = ascii.slash THEN SliceFrom(path, 1) ELSE path
           f == IF ip THEN SplitIPEndpoint(stripped) ELSE SplitNamedHost(stripped)
       IN [accountName |-> f.accountName, ShareName |-> f.ShareName,
           DirectoryOrFilePath |-> f.DirectoryOrFilePath, panic |-> FALSE]

\* caseInsensitiveValues.Get(key): Go ranges over a map in an unspecified
\* order, so the call returns the values of ANY key equal to key under
\* ToLower; the set is empty when the call returns ok = false.
Get(values, key) ==
  {values[k] : k \in {k \in DOMAIN values : ToLower(k) = ToLower(key)}}

\* The signed-access (SAS) parameters are parsed and encoded by another file
\* of the package; here they are the keys "sig" and "sv", recognized in any
\* casing, each with its first value.
\* The keys of the SAS parameters: "sig" and "sv".
SASKeys == {<<115,105,103>>, <<115,118>>}

\* newSASQueryParameters(values, true): the first value of every SAS key,
\* and the map without those keys.
newSASQueryParameters(values) ==
  LET mine(k) == {key \in DOMAIN values : ToLower(key) = k}
  IN [SAS |-> [k \in SASKeys |->
                 IF mine(k) = {} THEN <<>> ELSE values[CHOOSE key \in mine(k) : TRUE][1]],
      values |-> [key \in {key \in DOMAIN values : ToLower(key) \notin SASKeys}
                    |-> values[key]]]

\* SASQueryParameters.Encode(): the SAS parameters that are set, as a query.
SASEncode(sas) == Encode([k \in {k \in SASKeys : sas[k] # <<>>} |-> <<sas[k]>>])

\* The query half of NewFileURLParts once Get has returned: found says
\* whether Get returned ok, snapshotStr what it returned.
ExtractQueryWith(paramsMap, found, snapshotStr) ==
  LET afterDelete == IF found THEN Delete(paramsMap, shareSnapshot) ELSE paramsMap
      sas == newSASQueryParameters(afterDelete)
  IN [ShareSnapshot |-> IF found /\ snapshotStr # <<>> THEN snapshotStr[1] ELSE <<>>,
      SAS |-> sas.SAS,
      UnparsedParams |-> Encode(sas.values),
      panic |-> found /\ snapshotStr = <<>>]

\* The possible results of the query half of NewFileURLParts.
ExtractQuery(rawQuery) ==
  LET paramsMap == Query(rawQuery)
      got == Get(paramsMap, shareSnapshot)
  IN IF got = {} THEN {ExtractQueryWith(paramsMap, FALSE, <<>>)}
     ELSE {ExtractQueryWith(paramsMap, TRUE, snapshotStr) : snapshotStr \in got}

\* NewFileURLParts(u): the set of results the call can return, each with
\* the parts and whether the call panicked on the way.
NewFileURLParts(u) ==
  LET ip == isIPEndpointStyle(u)
      p == ParsePath(u.Path, ip)
  IN {[up |-> [Scheme |-> u.Scheme, Host |-> u.Host,
               ShareName |-> p.ShareName,
               DirectoryOrFilePath |-> p.DirectoryOrFilePath,
               ShareSnapshot |-> q.ShareSnapshot, SAS |-> q.SAS,
               UnparsedParams |-> q.UnparsedParams,
               accountName |-> p.accountName, isIPEndpointStyle |-> ip],
       panic |-> p.panic \/ q.panic] : q \in ExtractQuery(u.RawQuery)}

\* URLPath with the directory-or-file path appended outside the share test.
URLPathFlat(up) ==
  LET account == IF up.isIPEndpointStyle /\ up.accountName # <<>>
                 THEN <<ascii.slash>> \o up.accountName ELSE <<>>
      share == IF up.ShareName # <<>> THEN <<ascii.slash>> \o up.ShareName ELSE <<>>
      rest == IF up.DirectoryOrFilePath # <<>>
              THEN <<ascii.slash>> \o up.DirectoryOrFilePath ELSE <<>>
  IN account \o share \o rest

\* The path built by FileURLParts.URL().
URLPath(up) ==
  LET account == IF up.isIPEndpointStyle /\ up.accountName # <<>>
                 THEN <<ascii.slash>> \o up.accountName ELSE <<>>
      share == IF up.ShareName # <<>>
               THEN <<ascii.slash>> \o up.ShareName
                    \o (IF up.DirectoryOrFilePath # <<>>
                        THEN <<ascii.slash>> \o up.DirectoryOrFilePath ELSE <<>>)
               ELSE <<>>
  IN account \o share

\* URLRawQuery without the "len(rawQuery) > 0" tests: '&' is always written.
URLRawQueryAlwaysAmp(up) ==
  LET unparsed == up.UnparsedParams
      withSnapshot ==
        IF up.ShareSnapshot # <<>>
        THEN unparsed \o <<ascii.amp>>
             \o shareSnapshot \o <<ascii.eq>> \o up.ShareSnapshot
        ELSE unparsed
      sas == SASEncode(up.SAS)
  IN IF sas # <<>> THEN withSnapshot \o <<ascii.amp>> \o sas ELSE withSnapshot

\* The raw query built by FileURLParts.URL().
URLRawQuery(up) ==
  LET unparsed == up.UnparsedParams
      withSnapshot ==
        IF up.ShareSnapshot # <<>>
        THEN (IF Len(unparsed) > 0 THEN unparsed \o <<ascii.amp>> ELSE unparsed)
             \o shareSnapshot \o <<ascii.eq>> \o up.ShareSnapshot
        ELSE unparsed
      sas == SASEncode(up.SAS)
  IN IF sas # <<>>
     THEN (IF Len(withSnapshot) > 0 THEN withSnapshot \o <<ascii.amp>> ELSE withSnapshot)
          \o sas
     ELSE withSnapshot

\* FileURLParts.URL()
URL(up) ==
  [Scheme |-> up.Scheme, Host |-> up.Host, Path |-> URLPath(up),
   RawQuery |-> URLRawQuery(up)]

----------------------------------------------------------------------------
(* The inputs *)

\* Longest u.Path, in bytes.
MaxPathLen == 5
\* Most "key=value" pieces in u.RawQuery.
MaxPairs == 2
\* Most fields a caller sets between NewFileURLParts and URL().
MaxEdits == 1
\* Most times a built URL is parsed again.
MaxPasses == 1

\* u.Host, in this order: "10.0.0.1", "10.0.0.1:443", "[::1]:8080", "[::1]", "::1", "acct.example.com", "acct.example.com:443", "300.0.0.1"
Hosts ==
  { <<49,48,46,48,46,48,46,49>>,
    <<49,48,46,48,46,48,46,49,58,52,52,51>>,
    <<91,58,58,49,93,58,56,48,56,48>>,
    <<91,58,58,49,93>>,
    <<58,58,49>>,
    <<97,99,99,116,46,101,120,97,109,112,108,101,46,99,111,109>>,
    <<97,99,99,116,46,101,120,97,109,112,108,101,46,99,111,109,58,52,52,51>>,
    <<51,48,48,46,48,46,48,46,49>> }

\* One IP-endpoint style and one named-host style host.
FewHosts == {<<49,48,46,48,46,48,46,49,58,52,52,51>>, <<97,99,99,116,46,101,120,97,109,112,108,101,46,99,111,109>>}

PathBytes == {97, ascii.slash}

RECURSIVE StringsOfLen(_, _)
StringsOfLen(bytes, n) ==
  IF n = 0 THEN {<<>>}
  ELSE {<<b>> \o t : b \in bytes, t \in StringsOfLen(bytes, n - 1)}

\* u.Path: every string of 'a' and '/' up to MaxPathLen bytes.
Paths == UNION {StringsOfLen(PathBytes, n) : n \in 0..MaxPathLen}

\* "" and "/a/a/a"
FewPaths == {<<>>, <<47,97,47,97,47,97>>}

\* The snapshot key as "sharesnapshot" and as "ShareSnapshot".
SnapshotCasings == {shareSnapshot, <<83,104,97,114,101,83,110,97,112,115,104,111,116>>}

\* Raw query values "", "x", "%2B" (an escaped '+').
QueryValues == {<<>>, <<120>>, <<37,50,66>>}

\* The "key=value" pieces of a raw query: the snapshot key in both casings
\* with every value, the unrecognized "k=x" and the SAS parameter "sv=x".
Pieces ==
  {k \o <<ascii.eq>> \o v : k \in SnapshotCasings, v \in QueryValues}
  \cup {<<107,61,120>>, <<115,118,61,120>>}

RECURSIVE QueriesOfLen(_)
QueriesOfLen(n) ==
  IF n = 0 THEN {<<>>}
  ELSE IF n = 1 THEN Pieces
  ELSE {p \o <<ascii.amp>> \o t : p \in Pieces, t \in QueriesOfLen(n - 1)}

\* u.RawQuery: up to MaxPairs pieces joined by '&', and the shapes "k" (no
\* '=') and "&k=x&" (empty pieces).
Queries ==
  UNION {QueriesOfLen(n) : n \in 0..MaxPairs} \cup {<<107>>, <<38,107,61,120,38>>}

\* "", "k=x" and "ShareSnapshot=x&sv=x"
FewQueries == {<<>>, <<107,61,120>>, <<83,104,97,114,101,83,110,97,112,115,104,111,116>> \o <<61,120,38,115,118,61,120>>}

\* The url.URL values handed to NewFileURLParts.  The path and the query are
\* handled by disjoint code, so each is varied in full against a few values
\* of the other.
InputURLs ==
  {[Scheme |-> "https", Host |-> h, Path |-> p, RawQuery |-> rq] :
     h \in Hosts, p \in Paths, rq \in FewQueries}
  \cup
  {[Scheme |-> "https", Host |-> h, Path |-> p, RawQuery |-> rq] :
     h \in FewHosts, p \in FewPaths, rq \in Queries}

\* The values a caller assigns to the exported fields of FileURLParts:
\* "" or one byte for the names, "" or "k=x" for UnparsedParams.
FieldValues ==
  [ShareName |-> {<<>>, <<115>>}, DirectoryOrFilePath |-> {<<>>, <<100>>},
   ShareSnapshot |-> {<<>>, <<120>>}, UnparsedParams |-> {<<>>, <<107,61,120>>}]

----------------------------------------------------------------------------
(* The state machine: a caller parses u, may set fields, builds, and may
   feed the built URL back in. *)

VARIABLES
  u0,        \* the URL the caller started from
  u,         \* the url.URL passed to NewFileURLParts
  up,        \* the FileURLParts the caller holds
  panicked,  \* whether NewFileURLParts panicked
  up2,       \* the result of the latest call of NewFileURLParts(u)
  calls,     \* number of calls of NewFileURLParts(u) made
  edits,     \* number of fields set since the parse
  out,       \* the url.URL returned by up.URL()
  prev,      \* the URL built in the previous pass
  pass,      \* number of times a built URL was fed back
  pc         \* "start", "parsed" or "built"

vars == <<u0, u, up, panicked, up2, calls, edits, out, prev, pass, pc>>

\* The zero FileURLParts and url.URL.
ZeroParts ==
  [Scheme |-> "", Host |-> <<>>, ShareName |-> <<>>, DirectoryOrFilePath |-> <<>>,
   ShareSnapshot |-> <<>>, SAS |-> [k \in SASKeys |-> <<>>], UnparsedParams |-> <<>>,
   accountName |-> <<>>, isIPEndpointStyle |-> FALSE]

ZeroURL == [Scheme |-> "", Host |-> <<>>, Path |-> <<>>, RawQuery |-> <<>>]

Init ==
  /\ u0 \in InputURLs
  /\ u = u0
  /\ up = ZeroParts
  /\ up2 = ZeroParts
  /\ panicked = FALSE
  /\ calls = 0
  /\ edits = 0
  /\ out = ZeroURL
  /\ prev = ZeroURL
  /\ pass = 0
  /\ pc = "start"

\* up := NewFileURLParts(u)
Parse ==
  /\ pc = "start"
  /\ \E r \in NewFileURLParts(u) :
       /\ up' = r.up
       /\ up2' = r.up
       /\ panicked' = r.panic
  /\ calls' = 1
  /\ edits' = 0
  /\ pc' = "parsed"
  /\ UNCHANGED <<u0, u, out, prev, pass>>

\* A second, independent call NewFileURLParts(u) on the same u.
ParseAgain ==
  /\ pc = "parsed" /\ calls = 1 /\ edits = 0 /\ ~panicked
  /\ \E r \in NewFileURLParts(u) :
       /\ up2' = r.up
       /\ panicked' = r.panic
  /\ calls' = 2
  /\ UNCHANGED <<u0, u, up, edits, out, prev, pass, pc>>

\* The caller sets one exported field of the parts.
SetField ==
  /\ pc = "parsed" /\ ~panicked /\ calls = 1 /\ edits < MaxEdits
  /\ \E f \in DOMAIN FieldValues : \E v \in FieldValues[f] :
       up' = [up EXCEPT ![f] = v]
  /\ edits' = edits + 1
  /\ UNCHANGED <<u0, u, panicked, up2, calls, out, prev, pass, pc>>

\* out := up.URL()
Build ==
  /\ pc = "parsed" /\ ~panicked
  /\ out' = URL(up)
  /\ pc' = "built"
  /\ UNCHANGED <<u0, u, up, panicked, up2, calls, edits, prev, pass>>

\* The built URL of an unedited parse becomes the next input.
Again ==
  /\ pc = "built" /\ edits = 0 /\ pass < MaxPasses
  /\ u' = out
  /\ prev' = out
  /\ pass' = pass + 1
  /\ calls' = 0
  /\ pc' = "start"
  /\ UNCHANGED <<u0, up, panicked, up2, edits, out>>

Next == Parse \/ ParseAgain \/ SetField \/ Build \/ Again

Spec == Init /\ [][Next]_vars

----------------------------------------------------------------------------
(* Vocabulary of the properties *)

\* The path without a single leading '/'.
Stripped(path) ==
  IF path # <<>> /\ path[1] = ascii.slash THEN Tail(path) ELSE path

RECURSIVE CountByte(_, _)
CountByte(s, c) ==
  IF s = <<>> THEN 0
  ELSE (IF s[1] = c THEN 1 ELSE 0) + CountByte(Tail(s), c)

\* The '/'-separated segments of a path.
RECURSIVE Segments(_)
Segments(path) ==
  IF Index(path, ascii.slash) = -1 THEN <<path>>
  ELSE <<CutBefore(path, ascii.slash)>> \o Segments(CutAfter(path, ascii.slash))

\* The multiset of decoded key -> value associations of a raw query.
QueryBag(rawQuery) ==
  LET pairs == QueryPairs(rawQuery)
  IN [p \in {pairs[i] : i \in DOMAIN pairs} |->
        Cardinality({i \in DOMAIN pairs : pairs[i] = p})]

\* The keys of a raw query that are the snapshot key in some casing.
SnapshotKeys(rawQuery) ==
  {k \in DOMAIN Query(rawQuery) : ToLower(k) = shareSnapshot}

\* "/" followed by s, or nothing when s is empty.
SlashThen(s) == IF s # <<>> THEN <<ascii.slash>> \o s ELSE <<>>

\* The non-empty strings of a list joined by single '&'.
RECURSIVE JoinNonEmpty(_)
JoinNonEmpty(segs) ==
  IF segs = <<>> THEN <<>>
  ELSE LET tail == JoinNonEmpty(Tail(segs))
       IN IF segs[1] = <<>> THEN tail
          ELSE IF tail = <<>> THEN segs[1]
          ELSE segs[1] \o <<ascii.amp>> \o tail

\* No leading, trailing or doubled '&'.
CleanJoin(s) ==
  s = <<>> \/ (/\ s[1] # ascii.amp
               /\ s[Len(s)] # ascii.amp
               /\ \A i \in 1..(Len(s) - 1) : ~(s[i] = ascii.amp /\ s[i + 1] = ascii.amp))

\* host without surrounding brackets
Unbracket(h) ==
  IF Len(h) >= 2 /\ h[1] = ascii.lbrack /\ h[Len(h)] = ascii.rbrack
  THEN Slice(h, 1, Len(h) - 1) ELSE h

\* The host is an IP literal, possibly bracketed and possibly followed by
\* ":port".
IsIPWithOptionalPort(h) ==
  LET i == LastIndex(h, ascii.colon)
      port == SliceFrom(h, i + 1)
  IN \/ ParseIP(Unbracket(h))
     \/ /\ i >= 0
        /\ \A j \in DOMAIN port : IsDigit(port[j])
        /\ ParseIP(Unbracket(SliceTo(h, i)))

\* The parts are those NewFileURLParts returned, untouched by the caller.
Fresh == pc # "start" /\ edits = 0

----------------------------------------------------------------------------
(* Properties *)

\* C1: building the freshly parsed parts gives back the scheme, the host, the
\* path segments and the multiset of query key -> value associations of u.
RoundTrip ==
  (pc = "built" /\ Fresh) =>
     /\ out.Scheme = u.Scheme
     /\ out.Host = u.Host
     /\ Segments(Stripped(out.Path)) = Segments(Stripped(u.Path))
     /\ QueryBag(out.RawQuery) = QueryBag(u.RawQuery)

\* C2: when the query has the snapshot key in any casing, ShareSnapshot is the
\* first value of such a key and no casing of the key stays in UnparsedParams.
SnapshotExtractedAndRemoved ==
  (pc = "parsed" /\ Fresh /\ calls = 1 /\ SnapshotKeys(u.RawQuery) # {}) =>
     /\ \E k \in SnapshotKeys(u.RawQuery) : up.ShareSnapshot = Query(u.RawQuery)[k][1]
     /\ SnapshotKeys(up.UnparsedParams) = {}

\* C3: the parts are IP-endpoint style exactly when the host, without an
\* optional ":port", is an IPv4 or IPv6 literal.
StyleIsIPLiteralWithOptionalPort ==
  (pc = "parsed") => (up.isIPEndpointStyle <=> IsIPWithOptionalPort(u.Host))

\* C4: a second call of NewFileURLParts on the same URL returns the same parts.
ParseDeterministic ==
  (calls = 2) => (up2 = up)

\* C5: NewFileURLParts never panics; segments the path does not have are
\* empty, and an empty path gives three empty fields and builds an empty path.
ParsingTotal ==
  /\ ~panicked
  /\ (pc = "parsed" /\ Fresh) =>
        LET n == CountByte(Stripped(u.Path), ascii.slash)
        IN /\ (u.Path = <<>>) =>
                (up.accountName = <<>> /\ up.ShareName = <<>>
                 /\ up.DirectoryOrFilePath = <<>>)
           /\ (n = 0) => (up.DirectoryOrFilePath = <<>>)
           /\ (n = 0 /\ up.isIPEndpointStyle) => (up.ShareName = <<>>)
           /\ (n = 1 /\ up.isIPEndpointStyle) => (up.DirectoryOrFilePath = <<>>)
  /\ (pc = "built" /\ Fresh /\ u.Path = <<>>) => (out.Path = <<>>)

\* C5 witness: an empty path and a snapshot key with an empty value, parsed
\* and built.
ParsingTotalWitness ==
  /\ pc = "built" /\ Fresh
  /\ u.Path = <<>>
  /\ u.RawQuery = shareSnapshot \o <<ascii.eq>>
  /\ up.ShareSnapshot = <<>>

\* C6: IP-endpoint style: the stripped path is account, or account/share, or
\* account/share/rest, where account and share hold no '/' and rest is kept
\* as it is.
IPEndpointSegmentation ==
  (pc = "parsed" /\ Fresh /\ up.isIPEndpointStyle) =>
     LET s == Stripped(u.Path)
         n == CountByte(s, ascii.slash)
     IN /\ CountByte(up.accountName, ascii.slash) = 0
        /\ CountByte(up.ShareName, ascii.slash) = 0
        /\ (n = 0) => (s = up.accountName /\ up.ShareName = <<>>
                       /\ up.DirectoryOrFilePath = <<>>)
        /\ (n = 1) => (s = up.accountName \o <<ascii.slash>> \o up.ShareName
                       /\ up.DirectoryOrFilePath = <<>>)
        /\ (n >= 2) => (s = up.accountName \o <<ascii.slash>> \o up.ShareName
                              \o <<ascii.slash>> \o up.DirectoryOrFilePath)

\* C6 witness: an IP-endpoint style parse with an account, a share and a rest
\* that itself holds a '/'.
IPEndpointSegmentationWitness ==
  /\ pc = "parsed" /\ Fresh /\ up.isIPEndpointStyle
  /\ up.accountName # <<>> /\ up.ShareName # <<>>
  /\ CountByte(up.DirectoryOrFilePath, ascii.slash) > 0

\* C7: named-host style: the stripped path is share or share/rest, the share
\* holds no '/', the rest is kept as it is and there is no account name; an
\* account name is only ever set for IP-endpoint style.
NamedHostSegmentation ==
  /\ (pc = "parsed" /\ Fresh /\ ~up.isIPEndpointStyle) =>
        LET s == Stripped(u.Path)
            n == CountByte(s, ascii.slash)
        IN /\ up.accountName = <<>>
           /\ CountByte(up.ShareName, ascii.slash) = 0
           /\ (n = 0) => (s = up.ShareName /\ up.DirectoryOrFilePath = <<>>)
           /\ (n >= 1) => (s = up.ShareName \o <<ascii.slash>>
                                 \o up.DirectoryOrFilePath)
  /\ (pc # "start" /\ up.accountName # <<>>) => up.isIPEndpointStyle

\* C7 witness: a named-host style parse with a share and a rest that itself
\* holds a '/'.
NamedHostSegmentationWitness ==
  /\ pc = "parsed" /\ Fresh /\ ~up.isIPEndpointStyle
  /\ up.ShareName # <<>>
  /\ CountByte(up.DirectoryOrFilePath, ascii.slash) > 0

BuildQueryOrder ==
  (pc = "built") =>
     LET snap == IF up.ShareSnapshot # <<>>
                 THEN shareSnapshot \o <<ascii.eq>> \o up.ShareSnapshot ELSE <<>>
         segs == <<up.UnparsedParams, snap, SASEncode(up.SAS)>>
     IN /\ out.RawQuery = JoinNonEmpty(segs)
        /\ (\A i \in 1..3 : segs[i] = <<>>) => (out.RawQuery = <<>>)
        /\ (\A i \in 1..3 : CleanJoin(segs[i])) => CleanJoin(out.RawQuery)

\* C9 witness: all three parts of the query are present in a built URL.
BuildQueryOrderWitness ==
  /\ pc = "built"
  /\ up.UnparsedParams # <<>> /\ up.ShareSnapshot # <<>> /\ SASEncode(up.SAS) # <<>>

\* C10: for a URL with the snapshot key in at most one casing, parsing and
\* building the built URL once more gives the same URL.
NormalizationIdempotent ==
  (pc = "built" /\ Fresh /\ pass = 1
   /\ Cardinality(SnapshotKeys(u0.RawQuery)) <= 1) => (out = prev)

====
